---- MODULE Spec2Model ----
(***************************************************************************)
(* A model of the lambda calculus evaluator of src/src/main.rs: the Term   *)
(* type, capture-avoiding substitution, the beta reducer, the              *)
(* normal-form loop of eval, inlining against the environment, and the     *)
(* batch driver run() called from the REPL loop of main().                 *)
(***************************************************************************)
EXTENDS Naturals, Sequences, FiniteSets, TLC

(***************************************************************************)
(* Bounds of the model.                                                    *)
(***************************************************************************)
\* largest number of nodes of an enumerated input term
MaxSize == 4
\* largest number of nodes of an enumerated substituted value
MaxValSize == 2
\* number of nested beta_reduce frames the call stack holds
StackDepth == 9
\* number of lines the REPL reads in a modelled session
MaxRuns == 2
\* passes of the loop of reduce_to_normal_form followed when its result is computed
MaxLoop == 4
\* number of contractions followed after the first when a reduct is looked for
MaxContractions == 3
\* largest number of terms of one input unit
MaxBatch == 2

(***************************************************************************)
(* enum Term (main.rs 20-26).  Names are strings, as in the source.        *)
(***************************************************************************)
Variable(v) == [tag |-> "Variable", name |-> v]
Assignment(n, t) == [tag |-> "Assignment", name |-> n, val |-> t]
Abstraction(s, b) == [tag |-> "Abstraction", param |-> s, body |-> b]
Application(f, a) == [tag |-> "Application", fn |-> f, arg |-> a]

\* unreachable!() was hit: the thread panics
Panic == [tag |-> "Panic"]
\* the recursion of beta_reduce ran out of stack: the process aborts
Overflow == [tag |-> "Overflow"]
IsErr(t) == t.tag \in {"Panic", "Overflow"}

\* Term::Application(Box::new(l), Box::new(r)): l is computed first, and a
\* panic or abort while computing an operand leaves no term.
MkApp(l, r) == IF IsErr(l) THEN l ELSE IF IsErr(r) THEN r ELSE Application(l, r)
\* Term::Abstraction(s, Box::new(b)), likewise.
MkAbs(s, b) == IF IsErr(b) THEN b ELSE Abstraction(s, b)

\* A term has an Assignment node somewhere inside it.
RECURSIVE HasAssignment(_)
HasAssignment(term) ==
    CASE term.tag = "Variable" -> FALSE
      [] term.tag = "Abstraction" -> HasAssignment(term.body)
      [] term.tag = "Application" -> HasAssignment(term.fn) \/ HasAssignment(term.arg)
      [] OTHER -> TRUE

(***************************************************************************)
(* free_vars (main.rs 103-125).  The unreachable!() arm is reached exactly *)
(* when the term holds an Assignment (the traversal visits every node):    *)
(* free_vars_panics says so, and free_vars is the set otherwise.           *)
(***************************************************************************)
free_vars_panics(term) == HasAssignment(term)

RECURSIVE free_vars(_)
free_vars(term) ==
    CASE term.tag = "Variable" -> {term.name}
      [] term.tag = "Abstraction" -> free_vars(term.body) \ {term.param}
      [] term.tag = "Application" -> free_vars(term.fn) \cup free_vars(term.arg)
      [] OTHER -> {}

\* fresh_var (main.rs 128-130): format!("{}'", s)
fresh_var(s) == s \o "'"

\* rename_var (main.rs 133-156)
RECURSIVE rename_var(_, _, _)
rename_var(term, old_var, new_var) ==
    CASE term.tag = "Variable" ->
            IF term.name = old_var THEN Variable(new_var) ELSE Variable(term.name)
      [] term.tag = "Abstraction" ->
            LET param == IF term.param = old_var THEN new_var ELSE term.param
            IN  MkAbs(param, rename_var(term.body, old_var, new_var))
      [] term.tag = "Application" ->
            MkApp(rename_var(term.fn, old_var, new_var),
                  rename_var(term.arg, old_var, new_var))
      [] OTHER -> Panic

\* a substitute that never renames a binder
NeedsRename_never(s, value) == FALSE

\* The guard of the renaming arm of substitute (main.rs 85).
NeedsRename(s, value) == s \in free_vars(value)

\* The name the renaming arm of substitute binds (main.rs 87).
RenamedBinder(s) == fresh_var(s)

\* substitute (main.rs 71-98)
RECURSIVE substitute(_, _, _)
substitute(term, var, value) ==
    CASE term.tag = "Variable" ->
            IF term.name = var THEN value ELSE term
      [] term.tag = "Application" ->
            MkApp(substitute(term.fn, var, value), substitute(term.arg, var, value))
      [] term.tag = "Abstraction" ->
            IF term.param = var THEN term
            ELSE IF free_vars_panics(value) THEN Panic
            ELSE IF NeedsRename(term.param, value)
                 THEN LET s_new == RenamedBinder(term.param)
                          renamed == rename_var(term.body, term.param, s_new)
                      IN  IF IsErr(renamed) THEN renamed
                          ELSE MkAbs(s_new, substitute(renamed, var, value))
                 ELSE MkAbs(term.param, substitute(term.body, var, value))
      [] OTHER -> Panic

\* a beta_reduce that takes an Application of a variable for a fault
RECURSIVE beta_reduce_strict(_, _)
beta_reduce_strict(term, d) ==
    IF d = 0 THEN Overflow
    ELSE CASE term.tag = "Variable" -> term
           [] term.tag = "Abstraction" ->
                 MkAbs(term.param, beta_reduce_strict(term.body, d - 1))
           [] term.tag = "Application" ->
                 IF term.fn.tag = "Abstraction"
                 THEN LET s == substitute(term.fn.body, term.fn.param, term.arg)
                      IN  IF IsErr(s) THEN s ELSE beta_reduce_strict(s, d - 1)
                 ELSE IF term.fn.tag = "Variable" THEN Panic
                 ELSE MkApp(beta_reduce_strict(term.fn, d - 1),
                            beta_reduce_strict(term.arg, d - 1))
           [] OTHER -> Panic

\* a beta_reduce that leaves the body of an Abstraction as it is
RECURSIVE beta_reduce_shallow(_, _)
beta_reduce_shallow(term, d) ==
    IF d = 0 THEN Overflow
    ELSE CASE term.tag = "Variable" -> term
           [] term.tag = "Abstraction" -> term
           [] term.tag = "Application" ->
                 IF term.fn.tag = "Abstraction"
                 THEN LET s == substitute(term.fn.body, term.fn.param, term.arg)
                      IN  IF IsErr(s) THEN s ELSE beta_reduce_shallow(s, d - 1)
                 ELSE MkApp(beta_reduce_shallow(term.fn, d - 1),
                            beta_reduce_shallow(term.arg, d - 1))
           [] OTHER -> Panic

\* beta_reduce (main.rs 159-172).  d is the number of frames the stack still
\* holds: the recursion has no bound of its own, and a call that finds no
\* room aborts the process.
RECURSIVE beta_reduce(_, _)
beta_reduce(term, d) ==
    IF d = 0 THEN Overflow
    ELSE CASE term.tag = "Variable" -> term
           [] term.tag = "Abstraction" ->
                 MkAbs(term.param, beta_reduce(term.body, d - 1))
           [] term.tag = "Application" ->
                 IF term.fn.tag = "Abstraction"
                 THEN LET s == substitute(term.fn.body, term.fn.param, term.arg)
                      IN  IF IsErr(s) THEN s ELSE beta_reduce(s, d - 1)
                 ELSE MkApp(beta_reduce(term.fn, d - 1), beta_reduce(term.arg, d - 1))
           [] OTHER -> Panic

\* inline_vars (main.rs 199-212).  env is the HashMap: a function whose
\* domain is the set of bound names.
RECURSIVE inline_vars(_, _)
inline_vars(term, env_) ==
    CASE term.tag = "Variable" ->
            IF term.name \in DOMAIN env_ THEN env_[term.name] ELSE term
      [] term.tag = "Assignment" ->
            Assignment(term.name, inline_vars(term.val, env_))
      [] term.tag = "Abstraction" ->
            Abstraction(term.param, inline_vars(term.body, env_))
      [] OTHER ->
            Application(inline_vars(term.fn, env_), inline_vars(term.arg, env_))

\* an insert that keeps the binding a name already has
insert_keep(env_, name, val) ==
    [n \in DOMAIN env_ \cup {name} |-> IF n \in DOMAIN env_ THEN env_[n] ELSE val]

\* an insert that drops the other bindings
insert_alone(env_, name, val) == [n \in {name} |-> val]

\* env.insert(name, val) (main.rs 191)
insert(env_, name, val) ==
    [n \in DOMAIN env_ \cup {name} |-> IF n = name THEN val ELSE env_[n]]

\* a fold that keeps the first value
fold_step_first(acc, v) == IF acc = [tag |-> "None"] THEN v ELSE acc

\* the closure of the fold in run (main.rs 277): |_, term| eval(&term, env)
fold_step(acc, v) == v

(***************************************************************************)
(* Inputs.                                                                 *)
(***************************************************************************)
\* identifiers of the enumerated terms; x' is an identifier that already
\* carries the marker fresh_var appends
Names == {"x", "x'", "y"}

RECURSIVE TermsOfSize(_)
TermsOfSize(n) ==
    IF n = 1 THEN {Variable(v) : v \in Names}
    ELSE {Abstraction(s, b) : s \in Names, b \in TermsOfSize(n - 1)}
         \cup UNION {{Application(f, a) : f \in TermsOfSize(i),
                                          a \in TermsOfSize(n - 1 - i)} : i \in 1..(n - 2)}

\* every Assignment-free term over Names with at most n nodes
TermsUpTo(n) == UNION {TermsOfSize(i) : i \in 1..n}

\* λx.x, λx.x x, (λx.x x) (λx.x x)
Identity == Abstraction("x", Variable("x"))
SelfApp == Abstraction("x", Application(Variable("x"), Variable("x")))
Omega == Application(SelfApp, SelfApp)
\* λx.x x x, λy.λx.x x x and (λx.x x x) (λy.λx.x x x)
Triple == Abstraction("x", Application(Application(Variable("x"), Variable("x")),
                                       Variable("x")))
ConstTriple == Abstraction("y", Triple)
Cycle == Application(Triple, ConstTriple)
\* (λf.λx.f (f x)) (λy.y) z
Twice == Abstraction("f", Abstraction("x",
            Application(Variable("f"), Application(Variable("f"), Variable("x")))))
TwiceIdZ == Application(Application(Twice, Abstraction("y", Variable("y"))), Variable("z"))

\* the top-level terms a line or file of the session is made of
TopTerms ==
    { Variable("w"),
      Application(Variable("x"), Variable("y")),
      Application(Variable("id"), Variable("w")),
      Omega,
      Cycle,
      Assignment("id", Identity),
      Assignment("id", Application(Variable("id"), Variable("w"))),
      Assignment("w", Cycle),
      Assignment("x", Assignment("y", Variable("w"))) }

\* what the parser hands to run: the terms of one input unit, in order
Batches == UNION {[1..n -> TopTerms] : n \in 0..MaxBatch}

(***************************************************************************)
(* State.                                                                  *)
(***************************************************************************)
VARIABLES
    mode,     \* "file": main runs one file; "repl": main loops over lines
    env,      \* the HashMap of main, shared by every run
    runs,     \* input units read so far
    pc,       \* "prompt", "eval", "reduce", "print", "exit" or "fatal"
    terms,    \* the batch run is working on
    echo,     \* the inlined terms run printed before evaluating
    idx,      \* terms taken from the iterator of run
    inlined,  \* `term` of eval: the inlined top-level term
    cur,      \* `term` of reduce_to_normal_form
    target,   \* name of the Assignment eval is in, "" in a plain term
    result,   \* accumulator of the fold of run; printed when the batch ends
    fault,    \* why the process died
    call,     \* a direct call of one function, with its arguments
    ret       \* what the call returned

vars == <<mode, env, runs, pc, terms, echo, idx, inlined, cur, target, result, fault, call, ret>>
machine == <<mode, env, runs, pc, terms, echo, idx, inlined, cur, target, result, fault>>

None == [tag |-> "None"]
EmptyEnv == [n \in {} |-> None]

\* main before its first read (main.rs 285-288)
InitMachine ==
    /\ mode \in {"file", "repl"}
    /\ env = EmptyEnv
    /\ runs = 0
    /\ pc = "prompt"
    /\ terms = <<>>
    /\ echo = <<>>
    /\ idx = 0
    /\ inlined = None
    /\ cur = None
    /\ target = ""
    /\ result = None
    /\ fault = ""

Init == InitMachine /\ call = None /\ ret = None

\* run up to the first eval (main.rs 264-276): parse, echo the inlined
\* terms, take the first term or panic with "No term found".
Run(input) ==
    /\ pc = "prompt"
    /\ runs < MaxRuns
    /\ runs' = runs + 1
    /\ terms' = input
    /\ echo' = [i \in 1..Len(input) |-> inline_vars(input[i], env)]
    /\ idx' = 0
    /\ result' = None
    /\ IF Len(input) = 0
       THEN pc' = "fatal" /\ fault' = "No term found"
       ELSE pc' = "eval" /\ fault' = fault
    /\ UNCHANGED <<mode, env, inlined, cur, target, call, ret>>

\* eval up to the loop (main.rs 188-190, 194): inline the next term of the
\* iterator and enter reduce_to_normal_form on it, or on the value of an
\* Assignment.
EvalBegin ==
    /\ pc = "eval"
    /\ idx' = idx + 1
    /\ inlined' = inline_vars(terms[idx + 1], env)
    /\ IF inlined'.tag = "Assignment"
       THEN target' = inlined'.name /\ cur' = inlined'.val
       ELSE target' = "" /\ cur' = inlined'
    /\ pc' = "reduce"
    /\ UNCHANGED <<mode, env, runs, terms, echo, result, fault, call, ret>>

\* one pass of the loop of reduce_to_normal_form that goes round again
\* (main.rs 180-184)
ReduceLoop ==
    /\ pc = "reduce"
    /\ LET next == beta_reduce(cur, StackDepth)
       IN  /\ ~IsErr(next)
           /\ next # cur
           /\ cur' = next
    /\ UNCHANGED <<mode, env, runs, pc, terms, echo, idx, inlined, target, result, fault, call, ret>>

\* beta_reduce panics or exhausts the stack: the process dies inside eval
ReduceAbort ==
    /\ pc = "reduce"
    /\ LET next == beta_reduce(cur, StackDepth)
       IN  /\ IsErr(next)
           /\ fault' = next.tag
    /\ pc' = "fatal"
    /\ UNCHANGED <<mode, env, runs, terms, echo, idx, inlined, cur, target, result, call, ret>>

\* the loop returns (main.rs 181-183), eval stores an Assignment's value and
\* returns (main.rs 191-195), and fold keeps the value and takes the next
\* term, if there is one (main.rs 277).
ReduceReturn ==
    /\ pc = "reduce"
    /\ beta_reduce(cur, StackDepth) = cur
    /\ env' = IF target # "" THEN insert(env, target, cur) ELSE env
    /\ result' = fold_step(result, cur)
    /\ pc' = IF idx < Len(terms) THEN "eval" ELSE "print"
    /\ UNCHANGED <<mode, runs, terms, echo, idx, inlined, cur, target, fault, call, ret>>

\* run prints the result and returns, its locals dropped; main exits after
\* a file and prompts again in the REPL (main.rs 278-282, 289, 292-298)
RunReturn ==
    /\ pc = "print"
    /\ pc' = IF mode = "file" THEN "exit" ELSE "prompt"
    /\ terms' = <<>>
    /\ echo' = <<>>
    /\ idx' = 0
    /\ inlined' = None
    /\ cur' = None
    /\ target' = ""
    /\ result' = None
    /\ UNCHANGED <<mode, env, runs, fault, call, ret>>

Next ==
    \/ \E input \in Batches : Run(input)
    \/ EvalBegin
    \/ ReduceLoop
    \/ ReduceAbort
    \/ ReduceReturn
    \/ RunReturn

Spec == Init /\ [][Next]_vars

(***************************************************************************)
(* Direct calls of the pure functions, on every input within the bounds.   *)
(***************************************************************************)
\* the session is not started while a function is called directly
Unstarted ==
    /\ mode = "repl"
    /\ env = EmptyEnv
    /\ runs = 0
    /\ pc = "prompt"
    /\ terms = <<>>
    /\ echo = <<>>
    /\ idx = 0
    /\ inlined = None
    /\ cur = None
    /\ target = ""
    /\ result = None
    /\ fault = ""

SubstCalls ==
    {[op |-> "substitute", term |-> t, var |-> v, value |-> u] :
        t \in TermsUpTo(MaxSize), v \in Names, u \in TermsUpTo(MaxValSize)}

InitSubst == Unstarted /\ call \in SubstCalls /\ ret = None

CallSubstitute ==
    /\ call # None
    /\ call.op = "substitute"
    /\ ret = None
    /\ ret' = substitute(call.term, call.var, call.value)
    /\ UNCHANGED <<machine, call>>

SpecSubst == InitSubst /\ [][CallSubstitute]_vars

\* a call of substitute has returned
SubstReturned == call # None /\ call.op = "substitute" /\ ret # None

\* C1: substitute is capture-avoiding: the free variables of
\* substitute(t, var, value) are (freeVars(t) \ {var}) ∪ freeVars(value) when
\* var is free in t, and freeVars(t) otherwise, also when names that end in
\* the marker ' occur in t or value.
C1_CaptureAvoiding ==
    SubstReturned =>
        free_vars(ret) =
            IF call.var \in free_vars(call.term)
            THEN (free_vars(call.term) \ {call.var}) \cup free_vars(call.value)
            ELSE free_vars(call.term)

RECURSIVE ReachedBinders(_, _)
ReachedBinders(t, var) ==
    CASE t.tag = "Variable" -> {}
      [] t.tag = "Application" -> ReachedBinders(t.fn, var) \cup ReachedBinders(t.arg, var)
      [] t.tag = "Abstraction" ->
            IF t.param = var THEN {} ELSE {t.param} \cup ReachedBinders(t.body, var)
      [] OTHER -> {}

RedexUnderLambda ==
    Abstraction("x", Application(Abstraction("y", Variable("y")), Variable("x")))

\* (λx.x) ((λy.y) z)
IdOfRedex ==
    Application(Identity, Application(Abstraction("y", Variable("y")), Variable("z")))

BetaCalls ==
    {[op |-> "beta_reduce", term |-> t] :
        t \in TermsUpTo(MaxSize) \cup {Omega, Cycle, TwiceIdZ, IdOfRedex, RedexUnderLambda}}

InitBeta == Unstarted /\ call \in BetaCalls /\ ret = None

CallBetaReduce ==
    /\ call # None
    /\ call.op = "beta_reduce"
    /\ ret = None
    /\ ret' = beta_reduce(call.term, StackDepth)
    /\ UNCHANGED <<machine, call>>

SpecBeta == InitBeta /\ [][CallBetaReduce]_vars

\* values an environment holds and names it binds
EnvNames == {"x", "y"}
Envs == UNION {[D -> TermsUpTo(MaxValSize)] : D \in SUBSET EnvNames}

InlineCalls ==
    {[op |-> "inline_vars", term |-> t, env |-> e] :
        t \in TermsUpTo(MaxSize) \cup {Assignment("y", u) : u \in TermsUpTo(MaxValSize)},
        e \in Envs}

InitInline == Unstarted /\ call \in InlineCalls /\ ret = None

CallInlineVars ==
    /\ call # None
    /\ call.op = "inline_vars"
    /\ ret = None
    /\ ret' = inline_vars(call.term, call.env)
    /\ UNCHANGED <<machine, call>>

SpecInline == InitInline /\ [][CallInlineVars]_vars

\* a term has a redex: a subterm Application(Abstraction(_, _), _)
RECURSIVE HasRedex(_)
HasRedex(t) ==
    CASE t.tag = "Variable" -> FALSE
      [] t.tag = "Abstraction" -> HasRedex(t.body)
      [] t.tag = "Application" ->
            t.fn.tag = "Abstraction" \/ HasRedex(t.fn) \/ HasRedex(t.arg)
      [] OTHER -> FALSE

\* t with its leftmost-outermost redex (λx.b) a replaced by
\* substitute(b, x, a), and nothing else changed; t when it has no redex
RECURSIVE LeftmostStep(_)
LeftmostStep(t) ==
    CASE t.tag = "Abstraction" -> Abstraction(t.param, LeftmostStep(t.body))
      [] t.tag = "Application" ->
            IF t.fn.tag = "Abstraction" THEN substitute(t.fn.body, t.fn.param, t.arg)
            ELSE IF HasRedex(t.fn) THEN Application(LeftmostStep(t.fn), t.arg)
            ELSE Application(t.fn, LeftmostStep(t.arg))
      [] OTHER -> t

\* the terms t becomes by replacing one redex (λx.b) a, whichever, by
\* substitute(b, x, a)
RECURSIVE Contractions(_)
Contractions(t) ==
    CASE t.tag = "Abstraction" -> {Abstraction(t.param, b) : b \in Contractions(t.body)}
      [] t.tag = "Application" ->
            (IF t.fn.tag = "Abstraction"
             THEN {substitute(t.fn.body, t.fn.param, t.arg)} ELSE {})
            \cup {Application(f, t.arg) : f \in Contractions(t.fn)}
            \cup {Application(t.fn, a) : a \in Contractions(t.arg)}
      [] OTHER -> {}

\* the terms reached from those of S by at most k contractions
RECURSIVE ReachWithin(_, _)
ReachWithin(S, k) ==
    IF k = 0 THEN S
    ELSE ReachWithin(S \cup UNION {Contractions(t) : t \in S}, k - 1)

\* a call of beta_reduce has returned a term
BetaReturned == call # None /\ call.op = "beta_reduce" /\ ret # None /\ ~IsErr(ret)

\* C10 as stated: beta_reduce(t) is t when t has no redex, and otherwise t
\* with only its leftmost-outermost redex contracted, once.
C10_ExactlyOneStep == BetaReturned => ret = LeftmostStep(call.term)

\* C10 as amended: beta_reduce(t) is t when t has no redex; otherwise it
\* contracts the leftmost-outermost redex and goes on, so what it returns is
\* reached from that contraction by zero or more further contractions.
C10_OneOrMoreSteps ==
    (call # None /\ call.op = "beta_reduce" /\ ret # None) =>
        IF HasRedex(call.term)
        THEN IsErr(ret) \/ ret \in ReachWithin({LeftmostStep(call.term)}, MaxContractions)
        ELSE ret = call.term

\* one call contracted more than the leftmost-outermost redex
C10_Witness ==
    /\ BetaReturned
    /\ HasRedex(call.term)
    /\ ret # LeftmostStep(call.term)
    /\ call.term = TwiceIdZ

\* inline_vars as the claim has it: only the occurrences no enclosing
\* abstraction binds are replaced
RECURSIVE InlineFree(_, _, _)
InlineFree(t, e, bound) ==
    CASE t.tag = "Variable" ->
            IF t.name \in DOMAIN e /\ t.name \notin bound THEN e[t.name] ELSE t
      [] t.tag = "Assignment" -> Assignment(t.name, InlineFree(t.val, e, bound))
      [] t.tag = "Abstraction" ->
            Abstraction(t.param, InlineFree(t.body, e, bound \cup {t.param}))
      [] OTHER -> Application(InlineFree(t.fn, e, bound), InlineFree(t.arg, e, bound))

\* C8: inline_vars replaces the free occurrences of the names env binds
\* and leaves the occurrences bound by an enclosing abstraction untouched.
C8_InlineOnlyFree ==
    (call # None /\ call.op = "inline_vars" /\ ret # None) =>
        ret = InlineFree(call.term, call.env, {})

(***************************************************************************)
(* Properties of eval and run, on the session.                             *)
(***************************************************************************)
\* eval of terms[idx] has returned to run, and run has not taken another term
EvalReturned == idx >= 1 /\ pc \in {"eval", "print"}

\* this step is the return of eval to run
EvalReturns == pc = "reduce" /\ pc' \in {"eval", "print"}

\* reduce_to_normal_form as a function, with d frames of stack: the term it
\* returns, Panic or Overflow when beta_reduce dies, None when the loop has
\* not returned after k passes
RECURSIVE Normalize(_, _, _)
Normalize(t, d, k) ==
    IF k = 0 THEN None
    ELSE LET next == beta_reduce(t, d)
         IN  IF IsErr(next) THEN next
             ELSE IF next = t THEN t
             ELSE Normalize(next, d, k - 1)

\* C3: a term eval returns is in beta-normal form: it has no subterm
\* Application(Abstraction(_, _), _).
C3_ReturnsNormalForm == EvalReturned => ~HasRedex(result)

\* names kept apart for renaming in the reference substitution
FreshPool == {"v1", "v2", "v3", "v4"}

\* substitution as the lambda calculus defines it, the bound variable renamed
\* to a name that occurs nowhere in the terms at hand
RECURSIVE AllNames(_)
AllNames(t) ==
    CASE t.tag = "Variable" -> {t.name}
      [] t.tag = "Abstraction" -> {t.param} \cup AllNames(t.body)
      [] t.tag = "Application" -> AllNames(t.fn) \cup AllNames(t.arg)
      [] OTHER -> {}

RECURSIVE CaSubst(_, _, _)
CaSubst(t, x, v) ==
    CASE t.tag = "Variable" -> IF t.name = x THEN v ELSE t
      [] t.tag = "Application" -> Application(CaSubst(t.fn, x, v), CaSubst(t.arg, x, v))
      [] t.tag = "Abstraction" ->
            IF t.param = x \/ x \notin free_vars(t.body) THEN t
            ELSE IF t.param \in free_vars(v)
                 THEN LET z == CHOOSE n \in FreshPool :
                                  n \notin AllNames(t) \cup AllNames(v) \cup {x}
                      IN  Abstraction(z, CaSubst(CaSubst(t.body, t.param, Variable(z)), x, v))
                 ELSE Abstraction(t.param, CaSubst(t.body, x, v))
      [] OTHER -> t

\* the one-step beta reducts of t
RECURSIVE BetaSuccs(_)
BetaSuccs(t) ==
    CASE t.tag = "Abstraction" -> {Abstraction(t.param, b) : b \in BetaSuccs(t.body)}
      [] t.tag = "Application" ->
            (IF t.fn.tag = "Abstraction"
             THEN {CaSubst(t.fn.body, t.fn.param, t.arg)} ELSE {})
            \cup {Application(f, t.arg) : f \in BetaSuccs(t.fn)}
            \cup {Application(t.fn, a) : a \in BetaSuccs(t.arg)}
      [] OTHER -> {}

RECURSIVE BetaReach(_, _)
BetaReach(S, k) ==
    IF k = 0 THEN S ELSE BetaReach(S \cup UNION {BetaSuccs(t) : t \in S}, k - 1)

\* t has no beta-normal form, shown by its reducts: they are finitely many,
\* all found within MaxContractions steps, and each has a redex
NoNormalForm(t) ==
    LET R == BetaReach({t}, MaxContractions)
    IN  /\ \A u \in R : BetaSuccs(u) \subseteq R
        /\ \A u \in R : HasRedex(u)

\* the term eval normalizes: the inlined term, or the value of the inlined
\* Assignment
EvalSubject == IF inlined.tag = "Assignment" THEN inlined.val ELSE inlined

\* C4: eval of a term that has no beta-normal form never returns.
C4_NoNormalFormNeverReturns ==
    (EvalReturned /\ ~HasAssignment(EvalSubject)) => ~NoNormalForm(EvalSubject)

\* C5: when eval of Assignment(name, value) returns r, env[name] = r, r
\* being reduce_to_normal_form of value inlined against the environment of
\* before; a binding changes only when an Assignment to its name returns, and
\* none is removed; with id bound to λx.x alone, a later `id w` returns w.
C5_AssignmentPersistence ==
    [][ /\ (EvalReturns /\ terms[idx].tag = "Assignment") =>
               /\ terms[idx].name \in DOMAIN env'
               /\ env'[terms[idx].name] = cur
               /\ cur = Normalize(inline_vars(terms[idx].val, env), StackDepth, MaxLoop)
        /\ \A n \in DOMAIN env :
               /\ n \in DOMAIN env'
               /\ env'[n] # env[n] =>
                      EvalReturns /\ terms[idx].tag = "Assignment" /\ terms[idx].name = n
        /\ (/\ EvalReturns
            /\ terms[idx] = Application(Variable("id"), Variable("w"))
            /\ DOMAIN env = {"id"}
            /\ env["id"] = Identity) => result' = Variable("w")
      ]_vars

\* id was bound by a line of the session, and a later line `id w` gave w
C5_Witness ==
    /\ runs = 2
    /\ pc = "print"
    /\ terms = <<Application(Variable("id"), Variable("w"))>>
    /\ "id" \in DOMAIN env
    /\ env["id"] = Identity
    /\ result = Variable("w")

\* C6: run evaluates the terms of a batch once each, in order, against the
\* one environment; the batch result is what eval of the last term returned,
\* each term being inlined against the environment the earlier ones left; an
\* empty batch is the fatal error "No term found" and evaluates nothing.
C6_SequenceResult ==
    [][ /\ (pc = "prompt" /\ pc' # "prompt") =>
               /\ idx' = 0
               /\ IF terms' = <<>>
                  THEN pc' = "fatal" /\ fault' = "No term found" /\ env' = env
                  ELSE pc' = "eval"
        /\ pc = "eval" =>
               /\ idx' = idx + 1
               /\ idx' <= Len(terms)
               /\ terms' = terms
               /\ inlined' = inline_vars(terms[idx'], env)
        /\ idx' # idx => idx' = idx + 1 \/ (pc = "print" /\ idx' = 0)
        /\ pc' = "print" =>
               /\ idx = Len(terms)
               /\ result' = cur
               /\ beta_reduce(cur, StackDepth) = cur
        /\ (pc = "reduce" /\ pc' = "eval") => idx < Len(terms)
        /\ pc = "fatal" => pc' = "fatal"
      ]_vars

\* a batch of two ended: the second term saw the binding the first one made
C6_Witness ==
    /\ runs = 1
    /\ pc = "print"
    /\ terms = <<Assignment("id", Identity), Application(Variable("id"), Variable("w"))>>
    /\ idx = 2
    /\ result = Variable("w")

\* eval of terms[idx] is over: it returned or the process died in it
EvalEnded ==
    /\ idx >= 1
    /\ pc \in {"eval", "print", "fatal"}

\* the function position of the inlined Application normalizes, within the
\* stack left to it, to a term that is no Abstraction
HeadNotAFunction ==
    /\ inlined.tag = "Application"
    /\ LET h == Normalize(inlined.fn, StackDepth - 1, MaxLoop)
       IN  h # None /\ ~IsErr(h) /\ h.tag # "Abstraction"

\* C7 as stated: evaluating an Application whose function position does not
\* normalize to an Abstraction ends in a fatal error and returns no term.
C7_IllTypedHeadIsFatal == (EvalEnded /\ HeadNotAFunction) => pc = "fatal"

\* C7 as amended: evaluating an Application whose function position
\* normalizes to a term that is no Abstraction is no error: when the argument
\* normalizes too, eval returns the Application of the two normal forms
\* (x y with x unbound returns x y).
C7_StuckHeadReturns ==
    (/\ EvalEnded
     /\ HeadNotAFunction
     /\ Normalize(inlined.arg, StackDepth - 1, MaxLoop) # None
     /\ ~IsErr(Normalize(inlined.arg, StackDepth - 1, MaxLoop))) =>
        /\ pc # "fatal"
        /\ result = Application(Normalize(inlined.fn, StackDepth - 1, MaxLoop),
                                Normalize(inlined.arg, StackDepth - 1, MaxLoop))

\* x y was evaluated with x unbound, and eval returned x y
C7_Witness ==
    /\ EvalReturned
    /\ inlined = Application(Variable("x"), Variable("y"))
    /\ result = Application(Variable("x"), Variable("y"))

\* C9: the environment changes only when eval of an Assignment returns, and
\* then at most in the binding of the assigned name; a plain term, the echo
\* of run and an evaluation that ends in a fatal error leave it as it was;
\* no binding is ever removed.
C9_EnvOnlyByAssignment ==
    [][ /\ env' # env =>
               /\ EvalReturns
               /\ terms[idx].tag = "Assignment"
               /\ DOMAIN env' = DOMAIN env \cup {terms[idx].name}
               /\ \A n \in DOMAIN env : n # terms[idx].name => env'[n] = env[n]
        /\ DOMAIN env \subseteq DOMAIN env'
        /\ pc' = "fatal" => env' = env
        /\ (pc = "prompt" /\ pc' # "prompt") => env' = env
        /\ (EvalReturns /\ terms[idx].tag # "Assignment") => env' = env
      ]_vars

\* two names were bound, and a later evaluation died
C9_Witness ==
    /\ DOMAIN env = {"id", "w"}
    /\ pc = "fatal"
    /\ fault = "Overflow"

====
